---- MODULE Spec2Model ----
(***************************************************************************)
(* Model of the Heartify login screen (src/app/login.tsx): the session     *)
(* bootstrap check run on mount (checkExistingAuth) and the login          *)
(* submission (handleLogin), together with the device storage, the alert   *)
(* dialog and the router they act on.                                      *)
(*                                                                         *)
(* Text typed by the user is a sequence of characters; values returned by  *)
(* the server and kept in storage are strings.  Every await of the source  *)
(* is a suspension point: the step that issues a call and the step that    *)
(* resumes after it are separate actions.                                  *)
(***************************************************************************)
EXTENDS Integers, Sequences, FiniteSets, TLC

\* ---------------------------------------------------------------- bounds
\* longest text the user types into an input
MaxLen == 2
\* invocations of handleLogin that can be suspended at the same time
MaxCalls == 2

\* ---------------------------------------------------------------- values
\* characters of typed text: one whitespace character, one other
Chars == {" ", "a"}
Texts == UNION {[1..k -> Chars] : k \in 0..MaxLen}

\* a storage read of a missing key (AsyncStorage yields null)
Null == "<null>"
\* a field missing from a parsed body
Undefined == "<undefined>"

SessionKeys == {"access_token", "token_type", "user_data"}

\* values the login endpoint returns on success
AccessTokens == {"", "t1"}
TokenTypes == {"Bearer"}
UserNames == {"alice", "bob"}
\* values of the error field of a failure body
ErrorFields == {Undefined, "bad credentials"}

NoUser == [username |-> Undefined]
NoBody == [kind |-> "none", access_token |-> Undefined, token_type |-> Undefined,
           user |-> NoUser, error |-> Undefined]
Unparseable == [NoBody EXCEPT !.kind = "unparseable"]
SuccessBodies == {[kind |-> "json", access_token |-> a, token_type |-> t,
                   user |-> [username |-> u], error |-> Undefined] :
                      a \in AccessTokens, t \in TokenTypes, u \in UserNames}
FailureBodies == {[kind |-> "json", access_token |-> Undefined, token_type |-> Undefined,
                   user |-> NoUser, error |-> e] : e \in ErrorFields}
\* a response of the login endpoint: its ok flag and its body
Responses == {[ok |-> TRUE, body |-> b] : b \in SuccessBodies \cup {Unparseable}}
             \cup {[ok |-> FALSE, body |-> b] : b \in FailureBodies \cup {Unparseable}}

NoPayload == [username |-> <<>>, password |-> <<>>]
IdleCall == [pc |-> "idle", payload |-> NoPayload, ok |-> FALSE, body |-> NoBody]

\* ---------------------------------------------------------------- alerts
NoAlert == [title |-> "", message |-> "", onPress |-> "none"]
ValidationAlert == [title |-> "Error",
                    message |-> "Please enter both username and password",
                    onPress |-> "none"]
SuccessAlert(user) == [title |-> "Success",
                       message |-> "Welcome back, " \o user.username \o "!",
                       onPress |-> "redirect"]
WarningAlert == [title |-> "Warning",
                 message |-> "Login successful but failed to store session data",
                 onPress |-> "none"]
GenericFailure == "Login failed. Please try again."
NetworkAlert == [title |-> "Error",
                 message |-> "Network error. Please check your connection and try again.",
                 onPress |-> "none"]

\* ---------------------------------------------------------------- state
VARIABLES
    username,        \* useState username
    password,        \* useState password
    isLoading,       \* useState isLoading (the busy flag)
    isCheckingAuth,  \* useState isCheckingAuth
    storage,         \* AsyncStorage: key -> value or Null
    chk,             \* position of checkExistingAuth
    calls,           \* suspended invocations of handleLogin
    alert,           \* the dialog on screen
    redirected,      \* router.replace('/(tabs)') has been called
    last             \* the step taken last

vars == <<username, password, isLoading, isCheckingAuth, storage, chk, calls,
          alert, redirected, last>>

CallIds == 1..MaxCalls

\* ---------------------------------------------------------------- pure helpers
RECURSIVE TrimStart(_)
TrimStart(s) == IF s = <<>> THEN s
                ELSE IF Head(s) = " " THEN TrimStart(Tail(s)) ELSE s

RECURSIVE TrimEnd(_)
TrimEnd(s) == IF s = <<>> THEN s
              ELSE IF s[Len(s)] = " " THEN TrimEnd(SubSeq(s, 1, Len(s) - 1)) ELSE s

\* String.prototype.trim
Trim(s) == TrimEnd(TrimStart(s))

\* !text for typed text
Falsy(s) == s = <<>>

\* truthiness of a value read from storage or from a body
Truthy(v) == v # Null /\ v # Undefined /\ v # ""

\* JSON.stringify of a user record
JSONstringify(user) == "{\"username\":\"" \o user.username \o "\"}"

EmptyStorage == [k \in SessionKeys |-> Null]

\* variant: token and token type stored under each other's key
MultiSetEntries_Swapped(data) ==
    [k \in SessionKeys |->
        CASE k = "access_token" -> data.token_type
          [] k = "token_type"   -> data.access_token
          [] k = "user_data"    -> JSONstringify(data.user)]

\* variant: the user record is left out of the write
MultiSetEntries_Partial(data) ==
    [k \in {"access_token", "token_type"} |->
        CASE k = "access_token" -> data.access_token
          [] k = "token_type"   -> data.token_type]

\* the key/value pairs handed to AsyncStorage.multiSet
MultiSetEntries(data) ==
    [k \in SessionKeys |->
        CASE k = "access_token" -> data.access_token
          [] k = "token_type"   -> data.token_type
          [] k = "user_data"    -> JSONstringify(data.user)]

\* variant: the user record is left behind
RemovedKeys_Partial == {"access_token", "token_type"}

\* the keys handed to AsyncStorage.multiRemove
RemovedKeys == {"access_token", "token_type", "user_data"}

\* the condition of the bootstrap check: all required auth data exists
HasAuthData(s) ==
    Truthy(s["access_token"]) /\ Truthy(s["token_type"]) /\ Truthy(s["user_data"])

\* data.error || 'Login failed. Please try again.'
ErrorMessage(data) == IF Truthy(data.error) THEN data.error ELSE GenericFailure

FailureAlert(data) == [title |-> "Error", message |-> ErrorMessage(data), onPress |-> "none"]

\* variant: the control is never disabled
LoginDisabled_Never == FALSE

\* disabled={isLoading} on the login control
LoginDisabled == isLoading

\* the interactive form is rendered and no dialog covers it
FormInteractive == ~isCheckingAuth /\ ~redirected /\ alert = NoAlert

Pending(i) == calls[i].pc # "idle"
FreeSlots == {i \in CallIds : ~Pending(i)}
Min(S) == CHOOSE x \in S : \A y \in S : x <= y

\* ---------------------------------------------------------------- mount
\* state of a freshly constructed screen whose effect has started checkExistingAuth
Mounted(s) ==
    /\ username = <<>>
    /\ password = <<>>
    /\ isLoading = FALSE
    /\ isCheckingAuth = TRUE
    /\ storage = s
    /\ chk = "multiGet"
    /\ calls = [i \in CallIds |-> IdleCall]
    /\ alert = NoAlert
    /\ redirected = FALSE
    /\ last = "mount"

Init == Mounted(EmptyStorage)


\* an app start mounts the screen again; suspended work of the old screen is gone
Remount == /\ username' = <<>>
           /\ password' = <<>>
           /\ isLoading' = FALSE
           /\ isCheckingAuth' = TRUE
           /\ chk' = "multiGet"
           /\ calls' = [i \in CallIds |-> IdleCall]
           /\ alert' = NoAlert
           /\ redirected' = FALSE
           /\ last' = "mount"
           /\ UNCHANGED storage

\* ---------------------------------------------------------------- checkExistingAuth
\* the finally block of checkExistingAuth
CheckFinally == isCheckingAuth' = FALSE

\* router.replace('/(tabs)')
RouterReplace == redirected' = TRUE

\* variant: a verify request that throws falls through to the login form
VerifyCatch_ShowLogin == /\ CheckFinally
                         /\ chk' = "done"
                         /\ last' = "verify:threw"
                         /\ UNCHANGED <<storage, redirected>>

\* the catch block around the verify request
VerifyCatch == /\ RouterReplace
               /\ CheckFinally
               /\ chk' = "done"
               /\ last' = "verify:threw"
               /\ UNCHANGED storage

\* await AsyncStorage.multiGet(...) settles
MultiGetResolve ==
    /\ chk = "multiGet"
    /\ \/ \* the read rejects: outer catch, then finally
          /\ CheckFinally
          /\ chk' = "done"
          /\ last' = "multiGet:rejected"
       \/ \* the read resolves
          IF HasAuthData(storage)
          THEN /\ chk' = "verify"
               /\ last' = "multiGet:present"
               /\ UNCHANGED isCheckingAuth
          ELSE /\ CheckFinally
               /\ chk' = "done"
               /\ last' = "multiGet:absent"
    /\ UNCHANGED <<username, password, isLoading, storage, calls, alert, redirected>>

\* await fetch(verify-token) settles
VerifyResolve ==
    /\ chk = "verify"
    /\ \/ \* the request throws
          VerifyCatch
       \/ \* response.ok
          /\ RouterReplace
          /\ CheckFinally
          /\ chk' = "done"
          /\ last' = "verify:ok"
          /\ UNCHANGED storage
       \/ \* a non-2xx response: multiRemove is called
          /\ chk' = "multiRemove"
          /\ last' = "verify:failed"
          /\ UNCHANGED <<isCheckingAuth, redirected, storage>>
    /\ UNCHANGED <<username, password, isLoading, calls, alert>>

\* await AsyncStorage.multiRemove(...) settles
MultiRemoveResolve ==
    /\ chk = "multiRemove"
    /\ \/ /\ storage' = [k \in SessionKeys |-> IF k \in RemovedKeys THEN Null ELSE storage[k]]
          /\ last' = "multiRemove:resolved"
       \/ \* the removal rejects: outer catch
          /\ UNCHANGED storage
          /\ last' = "multiRemove:rejected"
    /\ CheckFinally
    /\ chk' = "done"
    /\ UNCHANGED <<username, password, isLoading, calls, alert, redirected>>

\* ---------------------------------------------------------------- the form
\* onChangeText of the username input
SetUsername(t) ==
    /\ FormInteractive
    /\ ~isLoading
    /\ username' = t
    /\ last' = "setUsername"
    /\ UNCHANGED <<password, isLoading, isCheckingAuth, storage, chk, calls, alert, redirected>>

\* onChangeText of the password input
SetPassword(t) ==
    /\ FormInteractive
    /\ ~isLoading
    /\ password' = t
    /\ last' = "setPassword"
    /\ UNCHANGED <<username, isLoading, isCheckingAuth, storage, chk, calls, alert, redirected>>

\* ---------------------------------------------------------------- handleLogin
\* variant: the busy flag is not reset
LoginFinally_Skipped == UNCHANGED isLoading

\* the finally block of handleLogin
LoginFinally == isLoading' = FALSE

\* the handler ends: its slot is free again
Return(i) == calls' = [calls EXCEPT ![i] = IdleCall]

\* variant: the success dialog is shown although the write failed
StorageCatch_Success == alert' = [title |-> "Success", message |-> "Welcome back!",
                                  onPress |-> "redirect"]

\* the catch block around the storage write
StorageCatch == alert' = WarningAlert

\* the login control is pressed: validation, busy flag, request
HandleLogin ==
    /\ FormInteractive
    /\ ~LoginDisabled
    /\ IF Falsy(username) \/ Falsy(password)
       THEN /\ alert' = ValidationAlert
            /\ last' = "handleLogin:rejected"
            /\ UNCHANGED <<isLoading, calls>>
       ELSE /\ FreeSlots # {}
            /\ isLoading' = TRUE
            /\ calls' = [calls EXCEPT ![Min(FreeSlots)] =
                           [pc |-> "fetch",
                            payload |-> [username |-> Trim(username), password |-> password],
                            ok |-> FALSE,
                            body |-> NoBody]]
            /\ last' = "handleLogin:submitted"
            /\ UNCHANGED alert
    /\ UNCHANGED <<username, password, isCheckingAuth, storage, chk, redirected>>

\* await fetch(login) settles
FetchResolve(i) ==
    /\ calls[i].pc = "fetch"
    /\ \/ \* the request throws: outer catch, then finally
          /\ alert' = NetworkAlert
          /\ LoginFinally
          /\ Return(i)
          /\ last' = "fetch:threw"
       \/ \E r \in Responses :
             /\ calls' = [calls EXCEPT ![i].pc = "json", ![i].ok = r.ok, ![i].body = r.body]
             /\ last' = "fetch:responded"
             /\ UNCHANGED <<alert, isLoading>>
    /\ UNCHANGED <<username, password, isCheckingAuth, storage, chk, redirected>>

\* await response.json() settles
JsonResolve(i) ==
    /\ calls[i].pc = "json"
    /\ IF calls[i].body.kind = "unparseable"
       THEN \* the parse rejects: outer catch, then finally
            /\ alert' = NetworkAlert
            /\ LoginFinally
            /\ Return(i)
            /\ last' = "json:threw"
            /\ UNCHANGED password
       ELSE IF calls[i].ok
       THEN \* login successful: multiSet is called
            /\ calls' = [calls EXCEPT ![i].pc = "multiSet"]
            /\ last' = "json:ok"
            /\ UNCHANGED <<alert, isLoading, password>>
       ELSE \* login failed
            /\ alert' = FailureAlert(calls[i].body)
            /\ password' = <<>>
            /\ LoginFinally
            /\ Return(i)
            /\ last' = "json:failed"
    /\ UNCHANGED <<username, isCheckingAuth, storage, chk, redirected>>

\* await AsyncStorage.multiSet(...) settles
MultiSetResolve(i) ==
    /\ calls[i].pc = "multiSet"
    /\ \/ LET entries == MultiSetEntries(calls[i].body)
          IN  /\ storage' = [k \in SessionKeys |->
                               IF k \in DOMAIN entries THEN entries[k] ELSE storage[k]]
              /\ alert' = SuccessAlert(calls[i].body.user)
              /\ last' = "multiSet:resolved"
       \/ \* the write rejects
          /\ StorageCatch
          /\ last' = "multiSet:rejected"
          /\ UNCHANGED storage
    /\ LoginFinally
    /\ Return(i)
    /\ UNCHANGED <<username, password, isCheckingAuth, chk, redirected>>

\* the button of the dialog is pressed
PressAlertOK ==
    /\ alert # NoAlert
    /\ alert' = NoAlert
    /\ IF alert.onPress = "redirect"
       THEN /\ RouterReplace
            /\ last' = "alert:redirect"
       ELSE /\ UNCHANGED redirected
            /\ last' = "alert:dismissed"
    /\ UNCHANGED <<username, password, isLoading, isCheckingAuth, storage, chk, calls>>

\* ---------------------------------------------------------------- specification
Next == \/ Remount
        \/ MultiGetResolve
        \/ VerifyResolve
        \/ MultiRemoveResolve
        \/ \E t \in Texts : SetUsername(t)
        \/ \E t \in Texts : SetPassword(t)
        \/ HandleLogin
        \/ \E i \in CallIds : FetchResolve(i)
        \/ \E i \in CallIds : JsonResolve(i)
        \/ \E i \in CallIds : MultiSetResolve(i)
        \/ PressAlertOK

Spec == Init /\ [][Next]_vars

TypeOK ==
    /\ username \in Texts
    /\ password \in Texts
    /\ isLoading \in BOOLEAN
    /\ isCheckingAuth \in BOOLEAN
    /\ redirected \in BOOLEAN
    /\ chk \in {"multiGet", "verify", "multiRemove", "done"}
    /\ \A i \in CallIds : calls[i].pc \in {"idle", "fetch", "json", "multiSet"}


\* ---------------------------------------------------------------- properties
AllPresent == \A k \in SessionKeys : storage[k] # Null
AllAbsent == \A k \in SessionKeys : storage[k] = Null
NonePending == \A i \in CallIds : calls[i].pc = "idle"

\* text that is empty or whitespace only
Blank(s) == \A k \in 1..Len(s) : s[k] = " "

\* C1: a press of the login control with an empty or whitespace-only username
\* or password is rejected locally: the validation error is shown, the busy
\* state is not entered and no login request is issued.
C1_BlankInputRejected ==
    (last \in {"handleLogin:rejected", "handleLogin:submitted"}
        /\ (Blank(username) \/ Blank(password)))
    => (alert = ValidationAlert /\ ~isLoading /\ NonePending)

\* the serialized user records of the login endpoint's users
ExpectedUserData == [u \in UserNames |->
    IF u = "alice" THEN "{\"username\":\"alice\"}" ELSE "{\"username\":\"bob\"}"]

\* C2: when a 2xx login response carrying access_token, token_type and user
\* has been parsed and the multi-key write completes, the three storage keys
\* hold the returned token, the returned token type and the JSON text of the
\* returned user, and the success dialog is shown; no redirect is signalled
\* while a submission is suspended, and the login path signals the redirect
\* only in the step that acknowledges the success dialog.
C2_SuccessfulLogin ==
    [][ /\ \A i \in CallIds :
              (calls[i].pc = "multiSet" /\ last' = "multiSet:resolved"
                    /\ calls'[i].pc = "idle")
              => /\ storage'["access_token"] = calls[i].body.access_token
                 /\ storage'["token_type"] = calls[i].body.token_type
                 /\ storage'["user_data"] = ExpectedUserData[calls[i].body.user.username]
                 /\ alert'.title = "Success"
                 /\ alert'.onPress = "redirect"
                 /\ ~redirected'
        /\ (\E i \in CallIds : calls[i].pc # "idle") => ~redirected
        /\ (~redirected /\ redirected' /\ chk = "done")
              => /\ alert.title = "Success"
                 /\ last' = "alert:redirect"
                 /\ alert' = NoAlert
                 /\ storage' = storage
      ]_vars

C2_Witness ==
    /\ last = "alert:redirect"
    /\ redirected
    /\ storage = [k \in SessionKeys |->
                    CASE k = "access_token" -> "t1"
                      [] k = "token_type"   -> "Bearer"
                      [] k = "user_data"    -> "{\"username\":\"alice\"}"]

\* C3: whenever the login request completes with a non-2xx response, the
\* dialog shows the body's error field if present and the generic failure
\* message otherwise, never the connectivity message; the password input is
\* emptied, the username input is unchanged, storage is not written and no
\* redirect is signalled.
C3_NonOkResponse ==
    [][ \A i \in CallIds :
          (calls[i].pc = "json" /\ ~calls[i].ok /\ calls'[i].pc = "idle"
                /\ last' # "mount")
          => /\ alert'.message = (IF calls[i].body.error # Undefined
                                  THEN calls[i].body.error
                                  ELSE "Login failed. Please try again.")
             /\ alert'.message # NetworkAlert.message
             /\ password' = <<>>
             /\ username' = username
             /\ storage' = storage
             /\ redirected' = redirected
      ]_vars

C6_BusyCleared ==
    /\ NonePending => ~isLoading
    /\ last \in {"fetch:threw", "json:threw", "json:failed",
                 "multiSet:resolved", "multiSet:rejected"} => ~isLoading

C6_Witness ==
    /\ last = "multiSet:rejected"
    /\ NonePending
    /\ ~isLoading
    /\ alert = WarningAlert

\* C7: at most one login submission is suspended at any time, so at most one
\* login request is in flight.
C7_SingleSubmission ==
    Cardinality({i \in CallIds : calls[i].pc # "idle"}) <= 1

C7_Witness ==
    /\ \E i \in CallIds : calls[i].pc = "fetch"
    /\ isLoading
    /\ ~isCheckingAuth

\* C8: the three storage keys are all present or all absent.
C8_AllOrNone == AllPresent \/ AllAbsent

C8_Witness ==
    /\ last = "multiSet:resolved"
    /\ AllPresent

\* C9: when the verify request of the bootstrap check throws, the outcome is
\* that of a 2xx response: the redirect is signalled, the stored keys are
\* kept, and the run ends.
C9_VerifyThrowRedirects ==
    [][ (chk = "verify" /\ last' \in {"verify:threw", "verify:ok"})
        => /\ redirected'
           /\ storage' = storage
           /\ \A k \in SessionKeys : storage'[k] # Null
           /\ chk' = "done"
           /\ isCheckingAuth' = FALSE
      ]_vars

C9_Witness ==
    /\ last = "verify:threw"
    /\ redirected
    /\ AllPresent

\* C10: whenever a redirect has been signalled, and whenever a dialog whose
\* acknowledgement signals one is on screen, storage holds all three keys; a
\* rejected or failed login, a login whose write failed and a bootstrap check
\* that found a key absent leave no redirect signalled.
C10_RedirectImpliesSession ==
    /\ redirected => AllPresent
    /\ alert.onPress = "redirect" => AllPresent
    /\ last \in {"handleLogin:rejected", "fetch:threw", "json:threw",
                 "json:failed", "multiSet:rejected", "multiGet:absent",
                 "multiGet:rejected"} => ~redirected

C10_Witness ==
    /\ redirected
    /\ last = "alert:redirect"
    /\ AllPresent

====
